---- MODULE Spec2Model ----
(***************************************************************************)
(* A model of src/pn532.js: the PN532 driver's command/response engine     *)
(* (sendCommand and its request-scoped 'frame'/'error' listeners on the    *)
(* frame emitter), the tag poller started from 'newListener', and the tag  *)
(* operations built on sendCommand (scanTag, readBlock, writeBlock,        *)
(* readNdefData, writeNdefData).                                           *)
(*                                                                         *)
(* JavaScript runs one macrotask at a time: an event emitted by the frame  *)
(* emitter calls every registered listener synchronously, and the promise  *)
(* callbacks (.then/.catch) those listeners make runnable are microtasks   *)
(* that all run before the next I/O event or timer.  One action of this    *)
(* model is therefore one macrotask: the emit, every listener it calls,    *)
(* and every promise callback that follows from it.                        *)
(***************************************************************************)
EXTENDS Integers, Sequences, FiniteSets, TLC

VARIABLES
    initDone,        \* hal.init() has resolved                      (line 37)
    ready,           \* 'ready' has been emitted                     (line 38)
    reqs,            \* one record per sendCommand call, in call order
    frameListeners,  \* frameEmitter's 'frame' listener array (request ids)
    errorListeners,  \* frameEmitter's 'error' listener array (request ids)
    halOut,          \* the buffers passed to hal.write, in order    (line 91)
    loops,           \* one record per polling loop started at line 51
    rd,              \* the readNdefData call                  (lines 204-263)
    wr,              \* the writeNdefData call                 (lines 297-337)
    op,              \* a scanTag or readBlock call made by the driver's
                     \* caller                        (lines 136-170, 172-202)
    hung,            \* the event loop is stuck in the while of line 216
    hist             \* history (not program state): per request, what was
                     \* emitted while it was outstanding

vars == <<initDone, ready, reqs, frameListeners, errorListeners, halOut,
          loops, rd, wr, op, hung, hist>>

----------------------------------------------------------------------------
(* Bounds of the model *)

\* sendCommand calls made by the driver's callers in one behaviour
MaxReqs == 3
\* 'tag' listeners registered on the driver
MaxTagListeners == 2
\* length of the data passed to writeNdefData
MaxData == 6

----------------------------------------------------------------------------
(* Values *)

\* JavaScript's undefined and NaN, kept apart from every byte value
Undefined == -1
NaN == -2

NoResult == [kind |-> "None"]
UndefinedValue == [kind |-> "Undefined"]

\* chip constants of ./constants, used by value
COMMAND_GET_FIRMWARE_VERSION == 2
COMMAND_SAMCONFIGURATION == 20
SAMCONFIGURATION_MODE_NORMAL == 1
SAMCONFIGURATION_IRQ_ON == 1
COMMAND_IN_LIST_PASSIVE_TARGET == 74
CARD_ISO14443A == 0
COMMAND_IN_DATA_EXCHANGE == 64
MIFARE_COMMAND_READ == 48
MIFARE_COMMAND_WRITE_4 == 162
TAG_MEM_NDEF_TLV == 3
TAG_MEM_TERMINATOR_TLV == 254

AckFrame == [kind |-> "Ack"]
NackFrame == [kind |-> "Nack"]
DataFrame(dir, body) == [kind |-> "Data", dir |-> dir, body |-> body]
Directions == {"HostToDevice", "DeviceToHost"}

Errors == {[kind |-> "Error", id |-> "decode"], [kind |-> "Error", id |-> "transport"]}

Owner(type, id) == [type |-> type, id |-> id]

----------------------------------------------------------------------------
(* Array helpers with JavaScript's semantics *)

\* a[i] with a 0-based index: undefined outside the array (and for NaN)
At(a, i) == IF i >= 0 /\ i < Len(a) THEN a[i + 1] ELSE Undefined

\* a.slice(from, to) with 0-based, end-exclusive indices; NaN counts as 0
Slice(a, from, to) ==
    LET f0 == IF from < 0 THEN 0 ELSE from
        t0 == IF to < 0 THEN 0 ELSE to
        f == IF f0 > Len(a) THEN Len(a) ELSE f0
        t == IF t0 > Len(a) THEN Len(a) ELSE t0
    IN  IF f >= t THEN <<>> ELSE SubSeq(a, f + 1, t)

\* Math.ceil(n / d) for n >= 0, d > 0
Ceil(n, d) == (n + d - 1) \div d

\* EventEmitter.removeListener: drops the most recently added instance
RECURSIVE RemoveListener(_, _)
RemoveListener(s, x) ==
    IF s = <<>> THEN <<>>
    ELSE IF s[Len(s)] = x THEN SubSeq(s, 1, Len(s) - 1)
    ELSE Append(RemoveListener(SubSeq(s, 1, Len(s) - 1), x), s[Len(s)])

\* new DataFrame(commandBuffer).toBuffer(): a Buffer stores an array hole
\* or undefined as the byte 0, every other element modulo 256
ToBuffer(cmd) == [i \in 1..Len(cmd) |-> IF cmd[i] < 0 THEN 0 ELSE cmd[i] % 256]

----------------------------------------------------------------------------
(* The driver's state as one value, threaded through the handlers *)

World == [initDone |-> initDone, ready |-> ready, reqs |-> reqs,
          frameListeners |-> frameListeners, errorListeners |-> errorListeners,
          halOut |-> halOut, loops |-> loops, rd |-> rd, wr |-> wr, op |-> op,
          hung |-> hung, hist |-> hist]

Becomes(W) ==
    /\ initDone' = W.initDone
    /\ ready' = W.ready
    /\ reqs' = W.reqs
    /\ frameListeners' = W.frameListeners
    /\ errorListeners' = W.errorListeners
    /\ halOut' = W.halOut
    /\ loops' = W.loops
    /\ rd' = W.rd
    /\ wr' = W.wr
    /\ op' = W.op
    /\ hung' = W.hung
    /\ hist' = W.hist

NewHist == [ackSeen |-> FALSE, firstData |-> NoResult, firstError |-> NoResult,
            removed |-> 0]

IsPending(W, i) == W.reqs[i].status = "pending"

----------------------------------------------------------------------------
(* sendCommand, lines 56-93 *)

\* sendCommand that writes its frame a second time
sendCommand_WriteTwice(W, owner, commandBuffer) ==
    LET id == Len(W.reqs) + 1 IN
    [W EXCEPT
        !.reqs = Append(@, [owner |-> owner, cmd |-> commandBuffer,
                            status |-> "pending", result |-> NoResult]),
        !.hist = Append(@, NewHist),
        !.frameListeners = Append(@, id),
        !.errorListeners = Append(@, id),
        !.halOut = Append(Append(@, ToBuffer(commandBuffer)), ToBuffer(commandBuffer))]

\* sendCommand that writes its frame without listening for 'frame'
sendCommand_NotListening(W, owner, commandBuffer) ==
    LET id == Len(W.reqs) + 1 IN
    [W EXCEPT
        !.reqs = Append(@, [owner |-> owner, cmd |-> commandBuffer,
                            status |-> "pending", result |-> NoResult]),
        !.hist = Append(@, NewHist),
        !.errorListeners = Append(@, id),
        !.halOut = Append(@, ToBuffer(commandBuffer))]

\* The promise executor runs synchronously: both listeners are registered,
\* then the frame is written.
sendCommand(W, owner, commandBuffer) ==
    LET id == Len(W.reqs) + 1 IN
    [W EXCEPT
        !.reqs = Append(@, [owner |-> owner, cmd |-> commandBuffer,
                            status |-> "pending", result |-> NoResult]),
        !.hist = Append(@, NewHist),
        !.frameListeners = Append(@, id),
        !.errorListeners = Append(@, id),
        !.halOut = Append(@, ToBuffer(commandBuffer))]

\* removeListeners that forgets the 'error' handler
removeListeners_FrameOnly(W, id) ==
    [W EXCEPT
        !.frameListeners = RemoveListener(@, id),
        !.hist[id].removed = @ + 1]

removeListeners(W, id) ==
    [W EXCEPT
        !.frameListeners = RemoveListener(@, id),
        !.errorListeners = RemoveListener(@, id),
        !.hist[id].removed = @ + 1]

\* A promise settles once: resolve/reject after that are no-ops.
resolve(W, id, value) ==
    IF IsPending(W, id)
    THEN [W EXCEPT !.reqs[id].status = "resolved", !.reqs[id].result = value]
    ELSE W

reject(W, id, error) ==
    IF IsPending(W, id)
    THEN [W EXCEPT !.reqs[id].status = "rejected", !.reqs[id].result = error]
    ELSE W

\* onFrame that resolves and leaves its listeners registered
onFrame_KeepListeners(W, id, frame) ==
    IF frame.kind = "Data" THEN resolve(W, id, frame) ELSE W

onFrame(W, id, frame) ==
    IF frame.kind = "Ack" THEN W
    ELSE IF frame.kind = "Data" THEN resolve(removeListeners(W, id), id, frame)
    ELSE W

\* onError that tears the listeners down without rejecting
onError_NoReject(W, id, error) == removeListeners(W, id)

onError(W, id, error) == reject(removeListeners(W, id), id, error)

\* EventEmitter.emit calls the listeners registered when the emit began
RECURSIVE EmitFrame(_, _, _)
EmitFrame(W, listeners, frame) ==
    IF listeners = <<>> THEN W
    ELSE EmitFrame(onFrame(W, Head(listeners), frame), Tail(listeners), frame)

RECURSIVE EmitError(_, _, _)
EmitError(W, listeners, error) ==
    IF listeners = <<>> THEN W
    ELSE EmitError(onError(W, Head(listeners), error), Tail(listeners), error)

----------------------------------------------------------------------------
(* Command buffers *)

\* x || d : d replaces every falsy x (undefined, 0, NaN)
OrDefault(x, d) == IF x = Undefined \/ x = NaN \/ x = 0 THEN d ELSE x

\* lines 100-107
samCommand == <<COMMAND_SAMCONFIGURATION, SAMCONFIGURATION_MODE_NORMAL, 0,
                SAMCONFIGURATION_IRQ_ON>>

\* lines 139-146
scanCommand == <<COMMAND_IN_LIST_PASSIVE_TARGET, 1, CARD_ISO14443A>>

\* lines 175-185; options is [tagNumber, blockAddress], Undefined when absent
readBlockCommand(options) ==
    <<COMMAND_IN_DATA_EXCHANGE, OrDefault(options.tagNumber, 1),
      MIFARE_COMMAND_READ, OrDefault(options.blockAddress, 1)>>

\* lines 268-278
writeBlockCommand(block, options) ==
    <<COMMAND_IN_DATA_EXCHANGE, OrDefault(options.tagNumber, 1),
      MIFARE_COMMAND_WRITE_4, OrDefault(options.blockAddress, 1)>> \o block

Options(tagNumber, blockAddress) ==
    [tagNumber |-> tagNumber, blockAddress |-> blockAddress]

----------------------------------------------------------------------------
(* scanTag's callback, lines 149-169 *)

HexDigits == <<"0", "1", "2", "3", "4", "5", "6", "7",
               "8", "9", "a", "b", "c", "d", "e", "f">>

\* Buffer.toString('hex') of one byte: two lowercase digits
ByteHex(b) == <<HexDigits[(b \div 16) + 1], HexDigits[(b % 16) + 1]>>

\* .toString('hex').match(/.{1,2}/g).join(':') of a non-empty byte sequence
RECURSIVE UidString(_)
UidString(bytes) ==
    IF Len(bytes) = 1 THEN ByteHex(bytes[1])
    ELSE ByteHex(bytes[1]) \o <<":">> \o UidString(Tail(bytes))

\* 6 + uidLength, NaN when uidLength is undefined
UidEnd(uidLength) == IF uidLength = Undefined THEN NaN ELSE 6 + uidLength

\* The value scanTag's promise settles with for a response body: a tag,
\* undefined, or a TypeError (match() of the empty string is null).
scanTagResult(body) ==
    IF At(body, 0) = 1
    THEN LET uidBytes == Slice(body, 6, UidEnd(At(body, 5))) IN
         IF uidBytes = <<>> THEN [kind |-> "Throw"]
         ELSE [kind |-> "Tag", ATQA |-> Slice(body, 2, 4), SAK |-> At(body, 4),
               uid |-> UidString(uidBytes)]
    ELSE UndefinedValue

----------------------------------------------------------------------------
(* readBlock's and writeBlock's callback, lines 188-201 and 281-294 *)

\* body.slice(1, body.length): the trailing byte kept
stripBlock_KeepTrailing(body) == Slice(body, 1, Len(body))

\* body.slice(1, body.length - 1): status byte and trailing byte stripped
stripBlock(body) == Slice(body, 1, Len(body) - 1)

----------------------------------------------------------------------------
(* scanTag(), readBlock(options) and writeBlock(block, options) called by
   the driver's caller *)

IdleOp == [pc |-> "idle", kind |-> "none", options |-> NoResult,
           outcome |-> "none", value |-> NoResult, warned |-> FALSE]

\* the promise scanTag returns, lines 148-169: sendCommand's rejection passes
\* through the then; a TypeError thrown by the callback rejects it
scanTagCallback(W, id) ==
    LET r == W.reqs[id]
        tag == scanTagResult(r.result.body)
    IN  IF r.status = "rejected"
        THEN [W EXCEPT !.op.pc = "done", !.op.outcome = "rejected",
                       !.op.value = r.result]
        ELSE IF tag.kind = "Throw"
        THEN [W EXCEPT !.op.pc = "done", !.op.outcome = "rejected",
                       !.op.value = [kind |-> "TypeError"]]
        ELSE [W EXCEPT !.op.pc = "done", !.op.outcome = "resolved",
                       !.op.value = tag]

\* the promise readBlock returns, lines 187-201: status 0x13 is logged with
\* logger.warn and the block is returned all the same
readBlockCallback(W, id) ==
    LET r == W.reqs[id] IN
    IF r.status = "rejected"
    THEN [W EXCEPT !.op.pc = "done", !.op.outcome = "rejected",
                   !.op.value = r.result]
    ELSE [W EXCEPT !.op.pc = "done", !.op.outcome = "resolved",
                   !.op.warned = (At(r.result.body, 0) = 19),
                   !.op.value = [kind |-> "Bytes",
                                 bytes |-> stripBlock(r.result.body)]]

\* the promise writeBlock returns, lines 280-294: the same handling
writeBlockCallback(W, id) == readBlockCallback(W, id)

----------------------------------------------------------------------------
(* readNdefData, lines 204-263 *)

\* a + b in JavaScript numbers: NaN when an operand is undefined or NaN
Plus(a, b) == IF a < 0 \/ b < 0 THEN NaN ELSE a + b

\* The while loop of lines 216-237 from blockOffset on.  Once blockOffset is
\* NaN every comparison is false and every read undefined: the loop spins.
RECURSIVE findNdefTlv(_, _)
findNdefTlv(block, blockOffset) ==
    IF blockOffset = NaN THEN [kind |-> "spin"]
    ELSE IF blockOffset >= Len(block) THEN [kind |-> "throw"]
    ELSE LET type == At(block, blockOffset)
             length == At(block, blockOffset + 1)
         IN  IF type = TAG_MEM_NDEF_TLV
             THEN [kind |-> "found", ndefLength |-> length,
                   ndefValueOffset |-> blockOffset + 2]
             ELSE findNdefTlv(block, Plus(blockOffset + 2, length))

\* the 16 of line 240
BLOCK_SIZE == 16

\* Math.ceil((ndefValueOffset + ndefLength) / 16) - 1, line 240
additionalBlocksOf(ndefValueOffset, ndefLength) ==
    IF ndefLength < 0 THEN NaN ELSE Ceil(ndefValueOffset + ndefLength, BLOCK_SIZE) - 1

\* the comparison of line 246 as blockNum < additionalBlocks
moreBlocks_Strict(blockNum, additionalBlocks) ==
    additionalBlocks # NaN /\ blockNum < additionalBlocks

\* blockNum <= additionalBlocks, line 246 (false for NaN)
moreBlocks(blockNum, additionalBlocks) ==
    additionalBlocks # NaN /\ blockNum <= additionalBlocks

\* 4 * (blockNum + 1), line 247
readAddress(blockNum) == 4 * (blockNum + 1)

\* ndefData.slice(0, ndefLength), line 258
ndefResult(ndefData, ndefLength) ==
    [kind |-> "Bytes", bytes |-> Slice(ndefData, 0, ndefLength)]

IdleRead == [pc |-> "idle", block |-> <<>>, tlv |-> NoResult, ndefData |-> <<>>,
             additionalBlocks |-> 0, blockNum |-> 0,
             outcome |-> "none", value |-> NoResult]

\* the catch of lines 260-262 logs the error and returns nothing: the
\* promise readNdefData returns is resolved with undefined
readCatch(W) ==
    [W EXCEPT !.rd.pc = "done", !.rd.outcome = "resolved",
              !.rd.value = UndefinedValue]

\* retrieveBlock that reads the block after blockNum without waiting
retrieveBlock_Eager(W, blockNum) ==
    IF moreBlocks(blockNum, W.rd.additionalBlocks)
    THEN LET W1 == sendCommand([W EXCEPT !.rd.pc = "more", !.rd.blockNum = blockNum],
                               Owner("rd", 0),
                               readBlockCommand(Options(Undefined, readAddress(blockNum))))
         IN  IF moreBlocks(blockNum + 1, W.rd.additionalBlocks)
             THEN sendCommand([W1 EXCEPT !.rd.blockNum = blockNum + 1], Owner("rd", 0),
                      readBlockCommand(Options(Undefined, readAddress(blockNum + 1))))
             ELSE W1
    ELSE [W EXCEPT !.rd.pc = "done", !.rd.outcome = "resolved",
                   !.rd.value = ndefResult(W.rd.ndefData, W.rd.tlv.ndefLength)]

\* retrieveBlock(blockNum), lines 245-255, called from inside a then-chain
retrieveBlock(W, blockNum) ==
    IF moreBlocks(blockNum, W.rd.additionalBlocks)
    THEN sendCommand([W EXCEPT !.rd.pc = "more", !.rd.blockNum = blockNum],
                     Owner("rd", 0),
                     readBlockCommand(Options(Undefined, readAddress(blockNum))))
    ELSE [W EXCEPT !.rd.pc = "done", !.rd.outcome = "resolved",
                   !.rd.value = ndefResult(W.rd.ndefData, W.rd.tlv.ndefLength)]

\* the callback of lines 208-259 on the first block
readFirstBlock(W, block) ==
    LET tlv == findNdefTlv(block, 0)
        W1 == [W EXCEPT !.rd.block = block, !.rd.tlv = tlv]
    IN  IF tlv.kind = "spin" THEN [W1 EXCEPT !.hung = TRUE]
        ELSE IF tlv.kind = "throw" THEN readCatch(W1)
        ELSE LET additionalBlocks ==
                     additionalBlocksOf(tlv.ndefValueOffset, tlv.ndefLength)
                 W2 == [W1 EXCEPT
                          !.rd.ndefData = Slice(block, tlv.ndefValueOffset, Len(block)),
                          !.rd.additionalBlocks = additionalBlocks]
             IN  \* retrieveBlock(1) returns undefined when no block is
                 \* needed, and undefined.then throws a TypeError (line 258)
                 IF moreBlocks(1, additionalBlocks)
                 THEN retrieveBlock(W2, 1)
                 ELSE readCatch(W2)

\* the callback of lines 250-254 on an additional block
readMoreBlock(W, block) ==
    retrieveBlock([W EXCEPT !.rd.ndefData = @ \o block], W.rd.blockNum + 1)

----------------------------------------------------------------------------
(* writeNdefData, lines 297-337 *)

PAGE_SIZE == 4
NDEF_START == 4

\* lines 301-306
tlvBlock(data) == <<TAG_MEM_NDEF_TLV, Len(data)>> \o data \o <<TAG_MEM_TERMINATOR_TLV>>

\* block.splice(0, PAGE_SIZE) without the length fix-up
pageOf_NoPadding(block) == Slice(block, 0, PAGE_SIZE)

\* block.splice(0, PAGE_SIZE) and the length fix-up of lines 318-322: the
\* page taken from the front, holes (undefined) up to PAGE_SIZE
pageOf(block) ==
    LET taken == Slice(block, 0, PAGE_SIZE) IN
    taken \o [i \in 1..(PAGE_SIZE - Len(taken)) |-> Undefined]

\* NDEF_START + blockNum, line 317
writeAddress(blockNum) == NDEF_START + blockNum

IdleWrite == [pc |-> "idle", data |-> <<>>, block |-> <<>>, totalBlocks |-> 0,
              blockNum |-> 0, outcome |-> "none", value |-> NoResult]

\* writeBlock that writes the page after blockNum without waiting
writePage_Eager(W, blockNum) ==
    IF blockNum < W.wr.totalBlocks
    THEN LET W1 == sendCommand([W EXCEPT !.wr.pc = "writing", !.wr.blockNum = blockNum,
                                         !.wr.block = Slice(@, PAGE_SIZE, Len(@))],
                               Owner("wr", 0),
                               writeBlockCommand(pageOf(W.wr.block),
                                   Options(Undefined, writeAddress(blockNum))))
         IN  IF blockNum + 1 < W.wr.totalBlocks
             THEN sendCommand([W1 EXCEPT !.wr.blockNum = blockNum + 1,
                                         !.wr.block = Slice(@, PAGE_SIZE, Len(@))],
                              Owner("wr", 0),
                              writeBlockCommand(pageOf(W1.wr.block),
                                  Options(Undefined, writeAddress(blockNum + 1))))
             ELSE W1
    ELSE [W EXCEPT !.wr.pc = "done", !.wr.outcome = "resolved",
                   !.wr.value = UndefinedValue]

\* writeBlock(blockNum), lines 315-332
writePage(W, blockNum) ==
    IF blockNum < W.wr.totalBlocks
    THEN sendCommand([W EXCEPT !.wr.pc = "writing", !.wr.blockNum = blockNum,
                               !.wr.block = Slice(@, PAGE_SIZE, Len(@))],
                     Owner("wr", 0),
                     writeBlockCommand(pageOf(W.wr.block),
                                       Options(Undefined, writeAddress(blockNum))))
    ELSE [W EXCEPT !.wr.pc = "done", !.wr.outcome = "resolved",
                   !.wr.value = UndefinedValue]

----------------------------------------------------------------------------
(* Promise callbacks run after an emit *)

\* the polling loop's callback, lines 46-49: scanTag's promise rejects (an
\* error event, or the TypeError of its own callback) and nothing catches
\* it, so the loop sets no timer; otherwise 'tag' is emitted and the timer set
pollCallback(W, id) ==
    LET r == W.reqs[id]
        loop == r.owner.id
        tag == IF r.status = "resolved" THEN scanTagResult(r.result.body)
               ELSE [kind |-> "Throw"]
    IN  IF tag.kind = "Throw"
        THEN [W EXCEPT !.loops[loop].pc = "dead"]
        ELSE [W EXCEPT !.loops[loop].pc = "wait", !.loops[loop].lastTag = tag,
                       !.loops[loop].emitted = TRUE]

\* lines 37-39
samCallback(W, id) ==
    IF W.reqs[id].status = "resolved" THEN [W EXCEPT !.ready = TRUE] ELSE W

readCallback(W, id) ==
    LET r == W.reqs[id] IN
    IF r.status = "rejected" THEN readCatch(W)
    ELSE IF W.rd.pc = "first" THEN readFirstBlock(W, stripBlock(r.result.body))
    ELSE readMoreBlock(W, stripBlock(r.result.body))

\* the page callback run on a rejection too: the next page is written
writeCallback_IgnoreFailure(W, id) == writePage(W, W.wr.blockNum + 1)

\* lines 326-331: a rejected page write rejects the whole chain
writeCallback(W, id) ==
    LET r == W.reqs[id] IN
    IF r.status = "rejected"
    THEN [W EXCEPT !.wr.pc = "done", !.wr.outcome = "rejected",
                   !.wr.value = r.result]
    ELSE writePage(W, W.wr.blockNum + 1)

Callback(W, id) ==
    LET type == W.reqs[id].owner.type IN
    IF type = "poll" THEN pollCallback(W, id)
    ELSE IF type = "sam" THEN samCallback(W, id)
    ELSE IF type = "rd" THEN readCallback(W, id)
    ELSE IF type = "wr" THEN writeCallback(W, id)
    ELSE IF type = "scan" THEN scanTagCallback(W, id)
    ELSE IF type = "read" THEN readBlockCallback(W, id)
    ELSE IF type = "write" THEN writeBlockCallback(W, id)
    ELSE W

RECURSIVE RunCallbacks(_, _)
RunCallbacks(W, ids) ==
    IF ids = <<>> THEN W
    ELSE RunCallbacks(Callback(W, Head(ids)), Tail(ids))

\* the requests an emit settled, in the order their listeners ran
SettledBy(W0, W1) ==
    SelectSeq([i \in 1..Len(W0.reqs) |-> i],
              LAMBDA i: IsPending(W0, i) /\ ~IsPending(W1, i))

----------------------------------------------------------------------------
(* History: what was emitted while each request was outstanding *)

\* (SubSeq keeps the rebuilt sequence a tuple)
NoteFrame(W, frame) ==
    [W EXCEPT !.hist = SubSeq(
        [i \in 1..Len(W.hist) |->
            [W.hist[i] EXCEPT
                !.ackSeen = @ \/ (IsPending(W, i) /\ frame.kind = "Ack"),
                !.firstData = IF @ = NoResult /\ IsPending(W, i)
                                 /\ frame.kind = "Data" /\ frame.dir = "DeviceToHost"
                              THEN frame ELSE @]],
        1, Len(W.hist))]

NoteError(W, error) ==
    [W EXCEPT !.hist = SubSeq(
        [i \in 1..Len(W.hist) |->
            [W.hist[i] EXCEPT
                !.firstError = IF @ = NoResult /\ IsPending(W, i)
                               THEN error ELSE @]],
        1, Len(W.hist))]

----------------------------------------------------------------------------
(* One macrotask each *)

\* frameEmitter.emit('frame', frame) and the callbacks it makes runnable
\* (W0, W1, W2: the driver's state after each stage, each computed once)
DeliverFrame(frame) ==
    /\ ~hung
    /\ \E W0 \in {NoteFrame(World, frame)}:
         \E W1 \in {EmitFrame(W0, W0.frameListeners, frame)}:
           \E W2 \in {RunCallbacks(W1, SettledBy(W0, W1))}: Becomes(W2)

\* frameEmitter.emit('error', error) and the callbacks it makes runnable
DeliverError(error) ==
    /\ ~hung
    /\ errorListeners # <<>>
    /\ \E W0 \in {NoteError(World, error)}:
         \E W1 \in {EmitError(W0, W0.errorListeners, error)}:
           \E W2 \in {RunCallbacks(W1, SettledBy(W0, W1))}: Becomes(W2)

\* hal.init() resolves: configureSecureAccessModule(), lines 37-38
HalInitDone ==
    /\ ~hung
    /\ ~initDone
    /\ Len(reqs) < MaxReqs
    /\ Becomes(sendCommand([World EXCEPT !.initDone = TRUE], Owner("sam", 0),
                           samCommand))

\* pn532.on('tag', ...): the 'newListener' handler of lines 41-53 starts a loop
AddTagListener ==
    /\ ~hung
    /\ Len(loops) < MaxTagListeners
    /\ Len(reqs) < MaxReqs
    /\ Becomes(sendCommand(
           [World EXCEPT !.loops = Append(@, [pc |-> "scan", lastTag |-> NoResult,
                                              emitted |-> FALSE])],
           Owner("poll", Len(loops) + 1), scanCommand))

\* the timer of line 48 fires: scanTag() again
PollTimer ==
    /\ ~hung
    /\ Len(reqs) < MaxReqs
    /\ \E i \in 1..Len(loops):
         /\ loops[i].pc = "wait"
         /\ Becomes(sendCommand([World EXCEPT !.loops[i].pc = "scan",
                                              !.loops[i].emitted = FALSE],
                                Owner("poll", i), scanCommand))

\* a caller of the driver uses sendCommand (here through getFirmwareVersion)
UserSendCommand ==
    /\ ~hung
    /\ Len(reqs) < MaxReqs
    /\ Becomes(sendCommand(World, Owner("user", 0), <<COMMAND_GET_FIRMWARE_VERSION>>))

\* the frames the frame emitter can hand to the driver: an Ack, a Nack, a
\* response (one tag in the field) and a frame of the host's own direction
\* (whose body reads as "no tag")
ScanBodies == {<<1, 1, 0, 4, 8, 4, 222, 173, 190, 239>>}

EngineFrames ==
    {AckFrame, NackFrame, DataFrame("HostToDevice", <<0>>)}
        \cup {DataFrame("DeviceToHost", b) : b \in ScanBodies}

FrameEvent == \E f \in EngineFrames: DeliverFrame(f)

ErrorEvent == \E e \in Errors: DeliverError(e)

Init ==
    /\ initDone = FALSE
    /\ ready = FALSE
    /\ reqs = <<>>
    /\ frameListeners = <<>>
    /\ errorListeners = <<>>
    /\ halOut = <<>>
    /\ loops = <<>>
    /\ rd = IdleRead
    /\ wr = IdleWrite
    /\ op = IdleOp
    /\ hung = FALSE
    /\ hist = <<>>

Next ==
    \/ HalInitDone
    \/ AddTagListener
    \/ PollTimer
    \/ UserSendCommand
    \/ FrameEvent
    \/ ErrorEvent

Spec == Init /\ [][Next]_vars

----------------------------------------------------------------------------
(* readNdefData against a tag: the device answers the last command written *)

\* bytes a tag block can begin with, and how many of them are chosen freely
HeadBytes == {0, 1, 3, 12, 13, 14, 15, 31}
MaxHead == 3

\* a MIFARE read returns 16 bytes of tag memory (the comment of line 243)
TagBlockBytes == 16

FillModes == {"null", "ndef", "mark"}

FillByte(mode, i) ==
    IF mode = "null" THEN 0 ELSE IF mode = "ndef" THEN TAG_MEM_NDEF_TLV ELSE 64 + i

\* the first NDEF block of the tag: a freely chosen head, then a filling
FirstBlocks ==
    {[i \in 1..TagBlockBytes |-> IF i <= Len(h) THEN h[i] ELSE FillByte(m, i)] :
        h \in UNION {[1..n -> HeadBytes] : n \in 0..MaxHead}, m \in FillModes}

\* the block at a later address, its bytes telling the address and position
LaterBlock(addr) == [i \in 1..TagBlockBytes |-> 100 + 4 * addr + i]

\* response bodies to a read of addr: [status, ...block, trailing byte], or
\* a lone error status
ReadBodies(addr) ==
    {<<1>>} \cup
    {<<0>> \o b \o <<0>> :
        b \in IF addr = NDEF_START THEN FirstBlocks ELSE {LaterBlock(addr)}}

ReadFrames ==
    {AckFrame} \cup
    {DataFrame("DeviceToHost", b) : b \in ReadBodies(halOut[Len(halOut)][4])}

\* readNdefData(), line 207
ReadNdefData ==
    /\ ~hung
    /\ rd.pc = "idle"
    /\ Becomes(sendCommand([World EXCEPT !.rd.pc = "first"], Owner("rd", 0),
                           readBlockCommand(Options(Undefined, NDEF_START))))

ReadFrameEvent ==
    /\ frameListeners # <<>>
    /\ \E f \in ReadFrames: DeliverFrame(f)

ReadNext ==
    \/ ReadNdefData
    \/ ReadFrameEvent
    \/ ErrorEvent

SpecRead == Init /\ [][ReadNext]_vars

----------------------------------------------------------------------------
(* writeNdefData against a tag *)

DataBytes == {65, 66}

WriteData == UNION {[1..n -> DataBytes] : n \in 0..MaxData}

\* writeNdefData(data), lines 297-333
WriteNdefData ==
    /\ ~hung
    /\ wr.pc = "idle"
    /\ \E data \in WriteData:
         Becomes(writePage([World EXCEPT
                               !.wr.data = data,
                               !.wr.block = tlvBlock(data),
                               !.wr.totalBlocks = Ceil(Len(tlvBlock(data)), PAGE_SIZE)],
                           0))

WriteFrames == {AckFrame, DataFrame("DeviceToHost", <<0, 0>>)}

WriteFrameEvent ==
    /\ frameListeners # <<>>
    /\ \E f \in WriteFrames: DeliverFrame(f)

WriteNext ==
    \/ WriteNdefData
    \/ WriteFrameEvent
    \/ ErrorEvent

SpecWrite == Init /\ [][WriteNext]_vars

----------------------------------------------------------------------------
(* scanTag and readBlock against every short response body *)

\* longest response body to a readBlock
MaxBody == 4

\* response bodies to a scan: [tagCount, tagNumber, ATQA(2), SAK, uidLength,
\* UID...], whole or cut short
TagScanBodies ==
    {Slice(<<tagCount, 1, 0, 4, sak, uidLength>> \o uid, 0, n) :
        tagCount \in {0, 1, 2}, sak \in {0, 8}, uidLength \in {0, 1, 4, 7},
        uid \in {<<222, 173, 190, 239>>, <<4, 10, 255, 0>>}, n \in 1..10}

\* response bodies to a read: any bytes, 0x13 the format-mismatch status
BlockBodyBytes == {0, 19, 65}
BlockBodies == UNION {[1..n -> BlockBodyBytes] : n \in 0..MaxBody}

\* the options a caller passes to readBlock and writeBlock: each of
\* tagNumber and blockAddress absent or given
BlockOptions ==
    {Options(tagNumber, blockAddress) :
        tagNumber \in {Undefined, 1, 2}, blockAddress \in {Undefined, 0, 1, 4, 255}}

\* the page a caller passes to writeBlock
BlockPages == {<<1, 2, 3, 4>>}

\* scanTag(), line 148
ScanTag ==
    /\ ~hung
    /\ op.pc = "idle"
    /\ Becomes(sendCommand([World EXCEPT !.op.pc = "called", !.op.kind = "scan"],
                           Owner("scan", 0), scanCommand))

\* readBlock(options), line 187
ReadBlock ==
    /\ ~hung
    /\ op.pc = "idle"
    /\ \E options \in BlockOptions:
         Becomes(sendCommand([World EXCEPT !.op.pc = "called", !.op.kind = "read",
                                           !.op.options = options],
                             Owner("read", 0), readBlockCommand(options)))

\* writeBlock(block, options), line 280
WriteBlock ==
    /\ ~hung
    /\ op.pc = "idle"
    /\ \E options \in BlockOptions, block \in BlockPages:
         Becomes(sendCommand([World EXCEPT !.op.pc = "called", !.op.kind = "write",
                                           !.op.options = options],
                             Owner("write", 0), writeBlockCommand(block, options)))

TagFrames ==
    {AckFrame} \cup
    {DataFrame("DeviceToHost", b) :
        b \in IF op.kind = "scan" THEN TagScanBodies ELSE BlockBodies}

TagFrameEvent ==
    /\ frameListeners # <<>>
    /\ \E f \in TagFrames: DeliverFrame(f)

TagNext ==
    \/ ScanTag
    \/ ReadBlock
    \/ WriteBlock
    \/ TagFrameEvent
    \/ ErrorEvent

SpecTag == Init /\ [][TagNext]_vars

----------------------------------------------------------------------------
(* The engine against a device that answers: an Ack, then a response, for
   the commands written, and no error *)

\* response bodies of the answering device
AnswerBodies == {<<0>>, <<50, 1, 6, 7>>}

\* the device acknowledges a command that is awaiting its Ack
DeviceAck ==
    /\ \E i \in 1..Len(reqs): IsPending(World, i) /\ ~hist[i].ackSeen
    /\ DeliverFrame(AckFrame)

\* the device responds to a command it has acknowledged
DeviceData ==
    /\ \E i \in 1..Len(reqs): IsPending(World, i) /\ hist[i].ackSeen
    /\ \E body \in AnswerBodies: DeliverFrame(DataFrame("DeviceToHost", body))

AnsweredNext ==
    \/ HalInitDone
    \/ UserSendCommand
    \/ DeviceAck
    \/ DeviceData

SpecAnswered ==
    /\ Init
    /\ [][AnsweredNext]_vars
    /\ WF_vars(DeviceAck)
    /\ WF_vars(DeviceData)

----------------------------------------------------------------------------
(* Properties *)

Requests == 1..Len(reqs)
Pending == {p \in Requests : reqs[p].status = "pending"}
Settled == Requests \ Pending
ListenerCount(listeners, id) ==
    Cardinality({k \in 1..Len(listeners) : listeners[k] = id})

\* C1: while only Ack frames have been emitted since a request was made it
\* stays pending, and a resolved request holds exactly the first DataFrame
\* of direction DeviceToHost emitted while it was outstanding.
C1_ResolvedByFirstDeviceToHostData ==
    \A i \in Requests:
        /\ (hist[i].firstData = NoResult /\ hist[i].firstError = NoResult)
              => reqs[i].status = "pending"
        /\ reqs[i].status = "resolved" => reqs[i].result = hist[i].firstData

\* C2: a request is never resolved unless an Ack frame was observed for it
\* first: a Data frame arriving before any Ack does not resolve it.
C2_NoResolveBeforeAck ==
    \A i \in Requests: reqs[i].status = "resolved" => hist[i].ackSeen

\* C3: once an 'error' event has been emitted while a request was
\* outstanding, the request is rejected with that error, and stays so,
\* whether or not an Ack was observed before.
C3_ErrorRejectsOutstanding ==
    \A i \in Requests:
        hist[i].firstError # NoResult
            => /\ reqs[i].status = "rejected"
               /\ reqs[i].result = hist[i].firstError

\* a request rejected after its Ack, and a later request resolved by a
\* Data frame that the rejected one did not take
C3_Witness ==
    \E i, j \in Requests:
        /\ i < j
        /\ hist[i].ackSeen /\ reqs[i].status = "rejected"
        /\ reqs[j].status = "resolved"

\* C4: one step (one emitted frame) resolves at most one pending request.
C4_OneFrameResolvesOneRequest ==
    [][Cardinality({i \in Requests :
            reqs[i].status = "pending" /\ reqs'[i].status = "resolved"}) <= 1]_vars

\* C5: each unsettled request has its 'frame' and its 'error' handler
\* registered once and has removed nothing; each settled request has removed
\* its handlers exactly once and has neither registered: so both listener
\* arrays are as long as there are unsettled requests.
C5_ListenersMatchUnsettled ==
    /\ Len(frameListeners) = Cardinality(Pending)
    /\ Len(errorListeners) = Cardinality(Pending)
    /\ \A i \in Pending:
        /\ hist[i].removed = 0
        /\ ListenerCount(frameListeners, i) = 1
        /\ ListenerCount(errorListeners, i) = 1
    /\ \A i \in Settled:
        /\ hist[i].removed = 1
        /\ ListenerCount(frameListeners, i) = 0
        /\ ListenerCount(errorListeners, i) = 0

\* a resolved, a rejected and a still unsettled request side by side
C5_Witness ==
    \E i, j, k \in Requests:
        /\ reqs[i].status = "resolved"
        /\ reqs[j].status = "rejected"
        /\ reqs[k].status = "pending"

\* C6: however many 'tag' listeners were registered, one polling loop runs
\* and at most one scan issued by polling is outstanding.
C6_SinglePollingLoop ==
    /\ Len(loops) <= 1
    /\ Cardinality({i \in Pending : reqs[i].owner.type = "poll"}) <= 1

\* the value the TLV found in the first block declares: length bytes from
\* its value offset on
DeclaredValue == SubSeq(rd.block, rd.tlv.ndefValueOffset + 1,
                        rd.tlv.ndefValueOffset + rd.tlv.ndefLength)

\* C7: when the NDEF TLV and its whole value lie inside the first block,
\* readNdefData resolves with the declared value bytes.
C7_ValueInsideFirstBlock ==
    (/\ rd.pc = "done"
     /\ rd.tlv.kind = "found"
     /\ rd.tlv.ndefLength >= 0
     /\ rd.tlv.ndefValueOffset + rd.tlv.ndefLength <= Len(rd.block))
        => /\ rd.outcome = "resolved"
           /\ rd.value = [kind |-> "Bytes", bytes |-> DeclaredValue]

\* C8: when the TLV scan runs off the first block without finding the NDEF
\* type, readNdefData ends in a failure.
C8_NotFoundIsFailure ==
    (rd.pc = "done" /\ rd.tlv.kind = "throw") => rd.outcome = "rejected"

\* the bytes 0x03, len(data), data..., 0xFE and page k of them, zero-padded
WrittenSequence == <<3, Len(wr.data)>> \o wr.data \o <<254>>
ExpectedPage(k) ==
    [j \in 1..4 |-> IF 4 * k + j <= Len(WrittenSequence)
                    THEN WrittenSequence[4 * k + j] ELSE 0]
ExpectedPages == (Len(wr.data) + 3 + 3) \div 4

\* C9: the k-th command writeNdefData writes (k = 0, 1, ...) goes to block
\* address 4 + k and carries page k of the sequence; never more than
\* ceil((len(data)+3)/4) pages are written, and all of them once it resolves.
C9_PagesWritten ==
    wr.pc # "idle" =>
        /\ Len(halOut) <= ExpectedPages
        /\ \A k \in 1..Len(halOut):
            /\ halOut[k][4] = 4 + (k - 1)
            /\ SubSeq(halOut[k], 5, Len(halOut[k])) = ExpectedPage(k - 1)
        /\ wr.outcome = "resolved" => Len(halOut) = ExpectedPages

\* "AB" written: [3, 2, 'A', 'B'] to block 4, then [0xFE, 0, 0, 0] to block 5
C9_Witness ==
    /\ wr.outcome = "resolved"
    /\ wr.data = <<65, 66>>
    /\ Len(halOut) = 2
    /\ SubSeq(halOut[1], 4, 8) = <<4, 3, 2, 65, 66>>
    /\ SubSeq(halOut[2], 4, 8) = <<5, 254, 0, 0, 0>>

\* the block the k-th read command got back: the body without its status
\* byte and its trailing byte
BlockRead(k) ==
    IF Len(reqs[k].result.body) <= 2 THEN <<>>
    ELSE SubSeq(reqs[k].result.body, 2, Len(reqs[k].result.body) - 1)

RECURSIVE BlocksRead(_)
BlocksRead(n) == IF n <= 1 THEN <<>> ELSE BlocksRead(n - 1) \o BlockRead(n)

\* the least number of further 16-byte blocks covering offset + length bytes
BlocksNeeded ==
    CHOOSE n \in 0..20:
        /\ 16 * (n + 1) >= rd.tlv.ndefValueOffset + rd.tlv.ndefLength
        /\ \A m \in 0..(n - 1): 16 * (m + 1) < rd.tlv.ndefValueOffset + rd.tlv.ndefLength

FirstN(s, n) == IF n >= Len(s) THEN s ELSE SubSeq(s, 1, n)

\* C10: when the declared value reaches past the first block, the reads
\* after the first go to addresses 8, 12, ..., never more of them than
\* blocks are needed; once every one of them is answered readNdefData
\* resolves with the first block's bytes from the value offset on followed
\* by the blocks read, in order, cut to the declared length (exactly that
\* many bytes when every block came back whole).
C10_MultiBlockValue ==
    (/\ rd.tlv.kind = "found"
     /\ rd.tlv.ndefLength >= 0
     /\ rd.tlv.ndefValueOffset + rd.tlv.ndefLength > Len(rd.block))
        => /\ Len(halOut) <= 1 + BlocksNeeded
           /\ \A k \in 2..Len(halOut): halOut[k][4] = 4 * k
           /\ (\A k \in Requests: reqs[k].status = "resolved")
                 => LET all == SubSeq(rd.block, rd.tlv.ndefValueOffset + 1, Len(rd.block))
                                   \o BlocksRead(Len(reqs))
                    IN  /\ Len(halOut) = 1 + BlocksNeeded
                        /\ rd.outcome = "resolved"
                        /\ rd.value = [kind |-> "Bytes",
                                       bytes |-> FirstN(all, rd.tlv.ndefLength)]
                        /\ (\A k \in 2..Len(reqs): Len(BlockRead(k)) = 16)
                              => Len(rd.value.bytes) = rd.tlv.ndefLength

\* a value of 31 bytes at offset 2: two more blocks read, all 31 bytes back
C10_Witness ==
    /\ rd.outcome = "resolved"
    /\ rd.tlv.kind = "found"
    /\ rd.tlv.ndefLength = 31
    /\ Len(halOut) = 3
    /\ rd.value.kind = "Bytes"
    /\ Len(rd.value.bytes) = 31

\* the response body the scanTag or readBlock call was answered with
OpAnswered(kind) ==
    /\ op.kind = kind
    /\ op.pc = "done"
    /\ reqs[1].status = "resolved"
OpBody == reqs[1].result.body

\* C11: whatever the response body, scanTag's promise is resolved, never
\* rejected; it is resolved with a tag exactly when body[0] is 1 and with
\* no tag (undefined) for every other count.
C11_TagExactlyWhenCountIsOne ==
    OpAnswered("scan") =>
        /\ op.outcome = "resolved"
        /\ (op.value.kind = "Tag") <=> (OpBody[1] = 1)
        /\ OpBody[1] # 1 => op.value = UndefinedValue

\* the bytes of a body after its first, without its last
Stripped(body) ==
    IF Len(body) <= 2 THEN <<>> ELSE [i \in 1..(Len(body) - 2) |-> body[i + 1]]

\* C12: whatever the response body, readBlock's promise is resolved with the
\* body without its first (status) and its last (trailing) byte; a status
\* of 0x13 is warned about and the same stripped block is returned.
C12_BlockStripped ==
    OpAnswered("read") =>
        /\ op.outcome = "resolved"
        /\ op.value = [kind |-> "Bytes", bytes |-> Stripped(OpBody)]
        /\ op.warned <=> (Len(OpBody) >= 1 /\ OpBody[1] = 19)

\* a body of status 0x13: a warning, and the two memory bytes returned
C12_Witness ==
    /\ OpAnswered("read")
    /\ OpBody = <<19, 65, 19, 0>>
    /\ op.warned
    /\ op.outcome = "resolved"
    /\ op.value.bytes = <<65, 19>>

\* two lowercase hex digits per byte, a colon between bytes
HexDigit(d) == <<"0", "1", "2", "3", "4", "5", "6", "7",
                 "8", "9", "a", "b", "c", "d", "e", "f">>[d + 1]
ColonHex(bytes) ==
    [k \in 1..(3 * Len(bytes) - 1) |->
        IF k % 3 = 0 THEN ":"
        ELSE IF k % 3 = 1 THEN HexDigit(bytes[(k + 2) \div 3] \div 16)
        ELSE HexDigit(bytes[(k + 2) \div 3] % 16)]

\* the bytes body[from .. to-1] that the body holds (0-based)
BodyBytes(body, from, to) ==
    [i \in 1..((IF to < Len(body) THEN to ELSE Len(body)) - from) |-> body[from + i]]

\* C15: for every response body of tagCount 1 (a whole one holds six bytes
\* and the UID) scanTag resolves with ATQA = body[2..3], SAK = body[4] and
\* UID = the body[5] bytes from body[6] on as colon-separated lowercase hex.
C15_TagFields ==
    (OpAnswered("scan") /\ Len(OpBody) >= 6 /\ OpBody[1] = 1) =>
        /\ op.outcome = "resolved"
        /\ op.value.kind = "Tag"
        /\ op.value.ATQA = <<OpBody[3], OpBody[4]>>
        /\ op.value.SAK = OpBody[5]
        /\ op.value.uid = ColonHex(BodyBytes(OpBody, 6, 6 + OpBody[6]))

\* C13: a polling loop whose scan was rejected by an 'error' event (decode
\* or transport) has not stopped: it waits for its timer or has issued its
\* next scan.
C13_PollerSurvivesErrors ==
    \A i \in Requests:
        (reqs[i].owner.type = "poll" /\ reqs[i].status = "rejected")
            => loops[reqs[i].owner.id].pc \in {"wait", "scan"}

\* the scans of polling loop i that are outstanding
ScansOutstanding(rs, i) ==
    {k \in 1..Len(rs) : rs[k].owner = Owner("poll", i) /\ rs[k].status = "pending"}

\* C14: in every step each polling loop keeps to its cycle and never
\* leaves it: a loop with a scan outstanding goes on only by that scan
\* completing, 'tag' being emitted and the timer being set; a loop waiting
\* for its timer goes on only by issuing one new scan; no loop has two
\* scans outstanding.
C14_LoopCycle ==
    [][\A i \in 1..Len(loops):
        /\ loops'[i].pc \in {"scan", "wait"}
        /\ (loops[i].pc = "scan" /\ loops'[i].pc = "wait")
              => /\ loops'[i].emitted
                 /\ ScansOutstanding(reqs, i) # {}
                 /\ ScansOutstanding(reqs', i) = {}
        /\ (loops[i].pc = "wait" /\ loops'[i].pc = "scan")
              => /\ ScansOutstanding(reqs, i) = {}
                 /\ ScansOutstanding(reqs', i) = {Len(reqs) + 1}
        /\ Cardinality(ScansOutstanding(reqs', i)) <= 1]_vars

\* C16: writeNdefData has at most one command outstanding; the k-th page
\* write goes to address 0x04 + k, so the addresses strictly increase; and
\* a page write is sent only once every write before it has completed.
C16_PageWritesOneAtATime ==
    wr.pc # "idle" =>
        /\ Cardinality(Pending) <= 1
        /\ halOut # <<>> => halOut[1][4] = 4
        /\ \A k \in 2..Len(halOut): halOut[k][4] = halOut[k - 1][4] + 1
        /\ \A k \in 1..(Len(reqs) - 1): reqs[k].status = "resolved"

\* the third page (address 6) is being written, the first two are done
C16_Witness ==
    /\ Len(reqs) = 3
    /\ reqs[1].status = "resolved" /\ reqs[2].status = "resolved"
    /\ reqs[3].status = "pending"
    /\ halOut[1][4] = 4 /\ halOut[2][4] = 5 /\ halOut[3][4] = 6

\* C17: readNdefData has at most one command outstanding; its reads go to
\* 4, 8, 12, ... in this order; and a read is sent only once every read
\* before it has completed.
C17_BlockReadsOneAtATime ==
    rd.pc # "idle" =>
        /\ Cardinality(Pending) <= 1
        /\ halOut[1][4] = 4
        /\ \A k \in 2..Len(halOut): halOut[k][4] = halOut[k - 1][4] + 4
        /\ \A k \in 1..(Len(reqs) - 1): reqs[k].status = "resolved"

\* the read of address 12 is outstanding after those of 4 and 8 completed
C17_Witness ==
    /\ Len(reqs) = 3
    /\ reqs[1].status = "resolved" /\ reqs[2].status = "resolved"
    /\ reqs[3].status = "pending"
    /\ halOut[2][4] = 8 /\ halOut[3][4] = 12

\* C18: there are always as many frames written as sendCommand calls made,
\* the k-th frame carrying the k-th call's command; a step that makes no
\* sendCommand call (an Ack, a response, an error, a Nack) writes nothing,
\* and nothing already written is written again.
C18_OneWritePerCall ==
    [][/\ Len(halOut') = Len(reqs')
       /\ \A k \in 1..Len(reqs'):
            /\ Len(halOut'[k]) = Len(reqs'[k].cmd)
            /\ halOut'[k][1] = reqs'[k].cmd[1]
       /\ Len(reqs') = Len(reqs) => halOut' = halOut
       /\ Len(reqs') \in {Len(reqs), Len(reqs) + 1}
       /\ SubSeq(halOut', 1, Len(halOut)) = halOut]_vars

\* three calls and three frames: one call acknowledged and still awaited,
\* one rejected by an error, one answered
C18_Witness ==
    /\ Len(halOut) = 3
    /\ \E i, j, k \in Requests:
        /\ reqs[i].status = "pending" /\ hist[i].ackSeen
        /\ reqs[j].status = "rejected"
        /\ reqs[k].status = "resolved"

\* C19: once the first block has been read the TLV scan has ended, with
\* the NDEF TLV found or with the not-found error; it never runs on.
C19_TlvScanTerminates ==
    /\ ~hung
    /\ rd.pc \in {"more", "done"} /\ rd.block # <<>>
          => rd.tlv.kind \in {"found", "throw"}

\* C20: a request that is settled stays as it is in every later step: the
\* same outcome and value, no further call of its handlers' settling code
\* (removeListeners), and neither handler registered any more.
C20_SettledOnce ==
    [][\A i \in Requests:
        reqs[i].status # "pending"
            => /\ reqs'[i] = reqs[i]
               /\ hist'[i].removed = hist[i].removed
               /\ ListenerCount(frameListeners, i) = 0
               /\ ListenerCount(errorListeners, i) = 0
               /\ ListenerCount(frameListeners', i) = 0
               /\ ListenerCount(errorListeners', i) = 0]_vars

\* a request answered by a Data frame, then an error event that rejected a
\* later request, then a further Data frame that answered a third
C20_Witness ==
    \E i, j, k \in Requests:
        /\ i < j /\ j < k
        /\ reqs[i].status = "resolved"
        /\ reqs[j].status = "rejected"
        /\ reqs[k].status = "resolved"
        /\ reqs[k].result # reqs[i].result

\* C21: every frame written belongs to a request that is listening for
\* 'frame' and 'error' for as long as it is unsettled, so no reply can come
\* before the request listens; and with a device that sends an Ack and
\* then a response, and no error, every request is eventually resolved.
C21_AnsweredRequestResolves ==
    /\ [](\A k \in 1..Len(halOut):
            /\ k <= Len(reqs)
            /\ reqs[k].status = "pending"
                  => /\ ListenerCount(frameListeners, k) = 1
                     /\ ListenerCount(errorListeners, k) = 1)
    /\ \A i \in 1..MaxReqs:
          (Len(reqs) >= i /\ reqs[i].status = "pending")
              ~> (Len(reqs) >= i /\ reqs[i].status = "resolved")

\* two requests, each acknowledged and then resolved by its own response
C21_Witness ==
    /\ Len(reqs) = 2
    /\ \A i \in {1, 2}:
        /\ reqs[i].status = "resolved"
        /\ hist[i].ackSeen
        /\ reqs[i].result = hist[i].firstData
    /\ reqs[1].result # reqs[2].result

\* C22: every command the driver itself writes (the SAM configuration and
\* the polling scans) is written after hal.init() has resolved, and no
\* polling scan is outstanding together with the SAM configuration.
C22_NothingWrittenBeforeInit ==
    /\ \A i \in Requests: reqs[i].owner.type \in {"sam", "poll"} => initDone
    /\ ~ \E i, j \in Pending:
            reqs[i].owner.type = "sam" /\ reqs[j].owner.type = "poll"

\* the value an option passes on: the default only when the option is absent
Passed(option, default) == IF option = Undefined THEN default ELSE option

\* C23: the command readBlock or writeBlock writes carries the tag number
\* and the block address the caller passed, address 0 included, and the
\* defaults (tag 1, address 1) only where the option is absent.
C23_CommandCarriesOptions ==
    (op.kind \in {"read", "write"} /\ halOut # <<>>) =>
        /\ halOut[1][2] = Passed(op.options.tagNumber, 1)
        /\ halOut[1][4] = Passed(op.options.blockAddress, 1)

\* C24: a page write rejected by an error is the last command of
\* writeNdefData: no page is written after it, the promise writeNdefData
\* returned is rejected with that error, and no address was written twice.
C24_FailedPageEndsWrite ==
    \A k \in Requests:
        reqs[k].status = "rejected"
            => /\ k = Len(reqs)
               /\ Len(halOut) = k
               /\ wr.pc = "done"
               /\ wr.outcome = "rejected"
               /\ wr.value = reqs[k].result
               /\ \A a, b \in 1..Len(halOut):
                     a # b => halOut[a][4] # halOut[b][4]

\* three pages to write: the first written, the second rejected by a
\* transport error, the third never written
C24_Witness ==
    /\ wr.totalBlocks = 3
    /\ Len(halOut) = 2
    /\ reqs[1].status = "resolved"
    /\ reqs[2].status = "rejected"
    /\ wr.outcome = "rejected"
    /\ wr.value = [kind |-> "Error", id |-> "transport"]

====
